---- MODULE Spec2Model ----
(***************************************************************************)
(* Logyard (src/main.go): the live-tail streaming engine (streamLogFile,   *)
(* logReads, the streaming endpoint handler) and the source catalog        *)
(* builder (statSources, buildServer).                                     *)
(***************************************************************************)
EXTENDS Integers, Sequences, FiniteSets, TLC

\* ------------------------------------------------------------------ bounds
MaxFileLen == 4
MaxPairLen == 2
MaxChunk == 2
MaxSources == 2
MaxGrowLen == 3
MaxRequests == 2
MaxBytesPerChunk == 3
MaxWritten == 6

MaxPathLen == 3
MaxPollInterval == 3

\* --------------------------------------------------------- program constants
READ_BUFFER_SIZE == 2048

\* The default of the -polling flag.
DefaultPolling == 2000

\* time.Millisecond, in nanoseconds.
Millisecond == 1000000

NL == "\n"
Bytes == {"a", "b", NL}
PairBytes == {"a", NL}
Sessions == {"s1", "s2"}
Solo == {"s1"}

VARIABLES
    file,           \* content of the tailed log file (append-only)
    pc,             \* per session: position of the handler / streamLogFile
    drain,          \* per session: position of the logReads goroutine
    conn,           \* per session: the websocket connection
    handle,         \* per session: the os.File opened by streamLogFile
    buf,            \* per session: bytes held by the bufio.Reader
    fpos,           \* per session: offset of the file handle
    partial,        \* per session: partial-line carry-over
    eof,            \* per session: end-of-file flag
    lastKnownSize,  \* per session: last stat'ed size
    sent,           \* per session: messages written to the connection
    sendFailed,     \* per session: a WriteMessage returned an error
    crashed,        \* the process died of an unrecovered panic
    unreadable,     \* file system: directories whose listing fails
    broken,         \* file system: paths whose os.Stat fails
    rawSources,     \* sr.rawSources
    validSources,   \* sr.validSources
    idx,            \* statSources: index of the raw source being processed
    cpc,            \* startup: position in startServer
    cur,            \* statSources: the descriptor vsd being built
    todo,           \* WalkDir: paths still to visit, in visiting order
    walkErr,        \* WalkDir: the error it returns
    cachedHome,     \* sr.cachedHome
    endpoints,      \* leaf paths with endpoints registered on the mux
    listener,       \* the listening socket of sr.s
    reqs,           \* requests to "/" and "/$" accepted so far, in order
    pages,          \* bodies written by the listing handler
    chunkFiles,     \* rolling writer: the chunk files, in chunk order
    written,        \* capture: the bytes copied from standard input so far
    timer,          \* per session: nanoseconds the timer t is armed with
    pollIntervalMs, \* the -polling flag
    homePath,       \* the -hdir flag after initResources
    wd,             \* the working directory of the process
    arg,            \* path resolution: the path given
    shown,          \* path resolution: what resolveRelativePath returned
    resolved,       \* path resolution: what resolveAbsolutePath returned
    ppc             \* path resolution: position

tailVars == <<file, pc, drain, conn, handle, buf, fpos, partial, eof,
              lastKnownSize, sent, sendFailed, crashed, timer>>

catVars == <<unreadable, broken, rawSources, validSources, idx, cpc, cur,
             todo, walkErr, cachedHome, endpoints>>

srvVars == <<listener, reqs, pages>>

outVars == <<chunkFiles, written>>

cfgVars == <<pollIntervalMs, homePath, wd>>

pathVars == <<arg, shown, resolved, ppc>>

vars == <<tailVars, catVars, srvVars, outVars, cfgVars, pathVars>>

\* ----------------------------------------------------------------- helpers
Min(a, b) == IF a < b THEN a ELSE b

SeqsUpTo(S, n) == UNION {[1..k -> S] : k \in 1..n}

\* The chunks a producer appends in one write.
Chunks == SeqsUpTo(Bytes, MaxChunk)
PairChunks == SeqsUpTo(PairBytes, MaxChunk)

\* Index of the first line terminator of q, 0 when there is none.
IndexNL(q) ==
    IF \E i \in 1..Len(q) : q[i] = NL
    THEN CHOOSE i \in 1..Len(q) : q[i] = NL /\ \A j \in 1..(i - 1) : q[j] # NL
    ELSE 0

\* One session's local variable: an assignment changes that session's copy.
SharedVar(f, s, v) == [t \in DOMAIN f |-> v]
Local(f, s, v) == [f EXCEPT ![s] = v]

\* bufio.Reader.ReadBytes('\n') on the file as it is now: returns the bytes up
\* to and including the first terminator, filling the buffer from the file
\* while it holds none; at end of data returns what it has with io.EOF.
RECURSIVE ReadLoop(_, _, _)
ReadLoop(acc, b, off) ==
    LET i == IndexNL(b) IN
    IF i > 0
    THEN [line |-> acc \o SubSeq(b, 1, i), buf |-> SubSeq(b, i + 1, Len(b)),
          off |-> off, err |-> "nil"]
    ELSE IF Len(b) >= READ_BUFFER_SIZE
    THEN ReadLoop(acc \o b, <<>>, off)
    ELSE LET n == Min(Len(file) - off, READ_BUFFER_SIZE - Len(b)) IN
         IF n = 0
         THEN [line |-> acc \o b, buf |-> <<>>, off |-> off, err |-> "EOF"]
         ELSE ReadLoop(acc, b \o SubSeq(file, off + 1, off + n), off + n)

ReadBytes(s) == ReadLoop(<<>>, buf[s], fpos[s])

\* streamLogFile, end-of-data branch: the remainder joins the carry-over and
\* nothing is sent.
OnEOF_Flush(p, line) ==
    [msgs |-> IF Len(p \o line) # 0 THEN <<p \o line>> ELSE <<>>, partial |-> <<>>]
OnEOF(p, line) ==
    [msgs |-> <<>>, partial |-> IF Len(line) # 0 THEN p \o line ELSE p]

\* streamLogFile, terminated-line branch: the carry-over is prepended and
\* cleared, the line is one message.
OnLine_DropPartial(p, line) == [msgs |-> <<line>>, partial |-> <<>>]
OnLine_KeepPartial(p, line) == [msgs |-> <<p \o line>>, partial |-> p]
OnLine(p, line) == [msgs |-> <<p \o line>>, partial |-> <<>>]

\* streamLogFile, fatal read error branch: carry-over and returned bytes are
\* flushed as one last message when non-empty.
OnReadError_NoCarry(p, line) ==
    [msgs |-> IF Len(line) # 0 THEN <<line>> ELSE <<>>, partial |-> p]
OnReadError(p, line) ==
    [msgs |-> IF Len(p \o line) # 0 THEN <<p \o line>> ELSE <<>>, partial |-> p]

\* ------------------------------------------------------------- file system
\* The tree the catalog builder scans. "/logs/d.log" is a directory whose own
\* name carries the log-file suffix; "/missing" does not exist.
Dirs == {"/logs", "/logs/b", "/logs/d.log"}
LogFiles == {"/logs/a.log", "/logs/b/c.log", "/logs/d.log/e.log", "/app.log"}
OtherFiles == {"/logs/z.txt", "/notes.txt"}
Existing == Dirs \cup LogFiles \cup OtherFiles
SourcePaths == {"/logs", "/logs/b", "/app.log", "/notes.txt", "/missing"}
BrokenCandidates == {"/logs/a.log"}

\* os.ReadDir: the entries of a directory, sorted by name.
ReadDir(p) ==
    CASE p = "/logs" -> <<"/logs/a.log", "/logs/b", "/logs/d.log", "/logs/z.txt">>
      [] p = "/logs/b" -> <<"/logs/b/c.log">>
      [] p = "/logs/d.log" -> <<"/logs/d.log/e.log">>
      [] OTHER -> <<>>

\* strings.HasSuffix(path, ".log")
HasLogSuffix(p) == p \in LogFiles \cup {"/logs/d.log"}

\* os.FileInfo.IsDir
IsDir(p) == p \in Dirs

\* os.Stat succeeds
StatOK(p) == p \in Existing /\ p \notin broken

RawSources == [absPath : SourcePaths, valid : {TRUE}] \cup {[absPath |-> "", valid |-> FALSE]}

ZeroVsd == [path |-> "", isDir |-> FALSE, sub |-> <<>>]

PathsOf(subs) == [i \in 1..Len(subs) |-> subs[i].path]

NotDir(d) == ~d.isDir

\* buildHome and buildServer: the leaf files of one catalog entry.
LeavesOf(vsd) ==
    IF vsd.isDir THEN PathsOf(SelectSeq(vsd.sub, NotDir)) ELSE <<vsd.path>>

RECURSIVE Leaves(_)
Leaves(vs) == IF vs = <<>> THEN <<>> ELSE LeavesOf(Head(vs)) \o Leaves(Tail(vs))

\* buildHome: the listing, one group per directory source and one link per leaf.
Render(vs) == [i \in 1..Len(vs) |-> [path |-> vs[i].path, links |-> LeavesOf(vs[i])]]

\* sr.cachedHome, an atomic pointer: <<>> is the nil pointer, <<v>> points to
\* the page v. Store replaces the pointer, Load returns the page pointed to.
Store_Skip(cell, v) == cell
Store(cell, v) == <<v>>
Load(cell) == cell[1]

\* statSources: the result of WalkDir is discarded and the descriptor is
\* appended to the catalog whether or not the walk was aborted.
AfterWalk_DropOnError(vs, vsd, err) == IF err THEN vs ELSE Append(vs, vsd)
AfterWalk(vs, vsd, err) == Append(vs, vsd)

\* http.ServeMux.HandleFunc panics when a pattern is registered twice: the
\* number of leaves registered before that happens.
Registered(ls) ==
    IF \E k \in 1..Len(ls) : \E j \in 1..(k - 1) : ls[j] = ls[k]
    THEN (CHOOSE k \in 1..Len(ls) :
             /\ \E j \in 1..(k - 1) : ls[j] = ls[k]
             /\ \A m \in 1..(k - 1) : \A j \in 1..(m - 1) : ls[j] # ls[m]) - 1
    ELSE Len(ls)

\* ------------------------------------------------------------------ paths
\* A path string: pre is the "app://" prefix, abs a leading separator, segs
\* the elements between separators ("." stands for an empty element too: the
\* path package drops both). No elements and no leading separator is "".
Names == {"h", "w", "..", "."}
PathSegs == {<<>>} \cup SeqsUpTo(Names, MaxPathLen)
Paths == [pre : BOOLEAN, abs : BOOLEAN, segs : PathSegs]
Homes == {<<"h">>, <<"h", "w">>}
WorkDirs == {<<>>, <<"h">>, <<"w">>}

AbsPath(segs) == [pre |-> FALSE, abs |-> TRUE, segs |-> segs]
ZeroPath == [pre |-> FALSE, abs |-> FALSE, segs |-> <<>>]
DefaultHome == AbsPath(<<"h">>)
NoResult == [p |-> ZeroPath, err |-> FALSE]

\* filepath.Clean on the elements: "." is dropped, ".." removes the element
\* before it, is dropped at the root and is kept at the start of a relative
\* path.
RECURSIVE CleanSegs(_, _, _)
CleanSegs(abs, out, in) ==
    IF in = <<>> THEN out
    ELSE LET e == Head(in) IN
         IF e = "." THEN CleanSegs(abs, out, Tail(in))
         ELSE IF e = ".."
         THEN IF out # <<>> /\ out[Len(out)] # ".."
              THEN CleanSegs(abs, SubSeq(out, 1, Len(out) - 1), Tail(in))
              ELSE IF abs THEN CleanSegs(abs, out, Tail(in))
              ELSE CleanSegs(abs, Append(out, e), Tail(in))
         ELSE CleanSegs(abs, Append(out, e), Tail(in))

Clean(p) == [pre |-> FALSE, abs |-> p.abs, segs |-> CleanSegs(p.abs, <<>>, p.segs)]

\* filepath.Join(a, b) with a not empty: the elements of both, cleaned; a
\* leading separator of b is one more separator in the middle.
Join(a, b) == Clean([pre |-> FALSE, abs |-> a.abs, segs |-> a.segs \o b.segs])

\* strings.CutPrefix(p, "app://")
CutPrefix(p) == [p EXCEPT !.pre = FALSE]

\* filepath.IsAbs
IsAbs(p) == ~p.pre /\ p.abs

\* filepath.Abs of a path that is not absolute, the working directory being
\* resolvable: Join(wd, p).
Abs(p, dir) == Join(dir, p)

\* The number of leading elements two cleaned paths share.
Common(a, b) ==
    CHOOSE k \in 0..Min(Len(a), Len(b)) :
        /\ \A i \in 1..k : a[i] = b[i]
        /\ k < Min(Len(a), Len(b)) => a[k + 1] # b[k + 1]

\* filepath.Rel(base, targ): both cleaned; one ".." for each element of base
\* after the common part, then the rest of targ; an error when only one of
\* them is absolute or when base goes up past the common part.
Rel(base, targ) ==
    LET b == Clean(base)
        g == Clean(targ)
        k == Common(b.segs, g.segs)
        up == [i \in 1..(Len(b.segs) - k) |-> ".."] IN
    IF b.abs # g.abs \/ (\E i \in (k + 1)..Len(b.segs) : b.segs[i] = "..")
    THEN [p |-> ZeroPath, err |-> TRUE]
    ELSE [p |-> [pre |-> FALSE, abs |-> FALSE,
                 segs |-> up \o SubSeq(g.segs, k + 1, Len(g.segs))],
          err |-> FALSE]

\* resolveAbsolutePath: "app://" paths are joined to the home; an absolute
\* path is returned as given; any other is made absolute against the working
\* directory.
resolveAbsolutePath(p, home, dir) ==
    LET q == IF p.pre THEN Join(home, CutPrefix(p)) ELSE p IN
    IF IsAbs(q) THEN [p |-> q, err |-> FALSE]
    ELSE [p |-> Abs(q, dir), err |-> FALSE]

\* resolveRelativePath: "app://" paths are joined to the home; an absolute
\* path is made relative to the home; any other is returned as given.
resolveRelativePath(p, home) ==
    IF p.pre THEN [p |-> Join(home, CutPrefix(p)), err |-> FALSE]
    ELSE IF IsAbs(p) THEN Rel(home, p)
    ELSE [p |-> p, err |-> FALSE]

Returned == {"openerr", "staterr", "readerr"}
Stopped == Returned \cup {"panic"}

\* ---------------------------------------------------------------- initial
\* No streaming request has been made yet.
TailInit ==
    /\ file = <<>>
    /\ pc = [s \in Sessions |-> "idle"]
    /\ drain = [s \in Sessions |-> "none"]
    /\ conn = [s \in Sessions |-> "none"]
    /\ handle = [s \in Sessions |-> "none"]
    /\ buf = [s \in Sessions |-> <<>>]
    /\ fpos = [s \in Sessions |-> 0]
    /\ partial = [s \in Sessions |-> <<>>]
    /\ eof = [s \in Sessions |-> FALSE]
    /\ lastKnownSize = [s \in Sessions |-> 0]
    /\ sent = [s \in Sessions |-> <<>>]
    /\ sendFailed = [s \in Sessions |-> FALSE]
    /\ crashed = FALSE
    /\ timer = [s \in Sessions |-> 0]

\* The flags at their defaults, and no path being resolved.
Defaults ==
    /\ pollIntervalMs = DefaultPolling
    /\ homePath = DefaultHome
    /\ wd = DefaultHome
    /\ arg = ZeroPath
    /\ shown = NoResult
    /\ resolved = NoResult
    /\ ppc = "none"

\* buildServer has returned: the catalog holds the one log file found under
\* "/logs/b".
Built ==
    LET vsd == [path |-> "/logs/b", isDir |-> TRUE,
                sub |-> <<[path |-> "/logs/b/c.log", isDir |-> FALSE]>>] IN
    /\ unreadable = {}
    /\ broken = {}
    /\ rawSources = <<[absPath |-> "/logs/b", valid |-> TRUE]>>
    /\ validSources = <<vsd>>
    /\ idx = 2
    /\ cpc = "serving"
    /\ cur = vsd
    /\ todo = <<>>
    /\ walkErr = FALSE
    /\ cachedHome = <<Render(<<vsd>>)>>
    /\ endpoints = <<"/logs/b/c.log">>
    /\ reqs = <<>>
    /\ pages = {}
    /\ chunkFiles = <<>>
    /\ written = <<>>

\* The server is up and serves that file.
Served == Built /\ listener = "open"

Init == TailInit /\ Served /\ Defaults

\* startServer has resolved the source list and is about to call statSources.
CatalogInit ==
    /\ TailInit
    /\ unreadable \in SUBSET Dirs
    /\ broken \in SUBSET BrokenCandidates
    /\ rawSources \in SeqsUpTo(RawSources, MaxSources)
    /\ validSources = <<>>
    /\ idx = 1
    /\ cpc = "stat"
    /\ cur = ZeroVsd
    /\ todo = <<>>
    /\ walkErr = FALSE
    /\ cachedHome = <<>>
    /\ endpoints = <<>>
    /\ listener = "none"
    /\ reqs = <<>>
    /\ pages = {}
    /\ chunkFiles = <<>>
    /\ written = <<>>
    /\ Defaults

\* ------------------------------------------------------- startup actions
\* statSources: one iteration of the loop over the raw sources, up to the
\* start of the walk.
StatSource ==
    /\ cpc = "stat"
    /\ idx <= Len(rawSources)
    /\ LET src == rawSources[idx] IN
       IF ~src.valid
       THEN idx' = idx + 1 /\ UNCHANGED <<cur, todo, cpc, walkErr>>
       ELSE IF ~StatOK(src.absPath)
       THEN idx' = idx + 1 /\ UNCHANGED <<cur, todo, cpc, walkErr>>
       ELSE IF ~HasLogSuffix(src.absPath) /\ ~IsDir(src.absPath)
       THEN idx' = idx + 1 /\ UNCHANGED <<cur, todo, cpc, walkErr>>
       ELSE LET vsd == [path |-> src.absPath, isDir |-> IsDir(src.absPath), sub |-> <<>>] IN
            IF ~vsd.isDir
            THEN idx' = idx + 1 /\ cur' = vsd /\ UNCHANGED <<todo, cpc, walkErr>>
            ELSE /\ cur' = vsd
                 /\ todo' = <<vsd.path>>
                 /\ walkErr' = FALSE
                 /\ cpc' = "walk"
                 /\ idx' = idx
    /\ UNCHANGED <<unreadable, broken, rawSources, validSources, cachedHome, endpoints>>
    /\ UNCHANGED tailVars
    /\ UNCHANGED outVars
    /\ UNCHANGED cfgVars
    /\ UNCHANGED pathVars
    /\ UNCHANGED srvVars

\* filepath.WalkDir: visit the next path. The callback appends a path with the
\* log-file suffix that can be stat'ed; a directory that cannot be listed is
\* reported to the callback, which returns the error and so ends the walk.
WalkStep ==
    /\ cpc = "walk"
    /\ todo # <<>>
    /\ LET p == Head(todo)
           found == HasLogSuffix(p) /\ StatOK(p)
           subs == IF found THEN Append(cur.sub, [path |-> p, isDir |-> IsDir(p)])
                            ELSE cur.sub IN
       /\ cur' = [cur EXCEPT !.sub = subs]
       /\ IF IsDir(p) /\ p \in unreadable
          THEN todo' = <<>> /\ walkErr' = TRUE
          ELSE /\ todo' = (IF IsDir(p) THEN ReadDir(p) ELSE <<>>) \o Tail(todo)
               /\ walkErr' = walkErr
    /\ UNCHANGED <<unreadable, broken, rawSources, validSources, idx, cpc,
                   cachedHome, endpoints>>
    /\ UNCHANGED tailVars
    /\ UNCHANGED outVars
    /\ UNCHANGED cfgVars
    /\ UNCHANGED pathVars
    /\ UNCHANGED srvVars

\* statSources: WalkDir has returned; the descriptor joins the catalog.
EndWalk ==
    /\ cpc = "walk"
    /\ todo = <<>>
    /\ validSources' = AfterWalk(validSources, cur, walkErr)
    /\ idx' = idx + 1
    /\ cpc' = "stat"
    /\ UNCHANGED <<unreadable, broken, rawSources, cur, todo, walkErr,
                   cachedHome, endpoints>>
    /\ UNCHANGED tailVars
    /\ UNCHANGED outVars
    /\ UNCHANGED cfgVars
    /\ UNCHANGED pathVars
    /\ UNCHANGED srvVars

\* buildHome: render the catalog and store it in the cache cell.
BuildHome ==
    /\ cpc = "stat"
    /\ idx > Len(rawSources)
    /\ cachedHome' = Store(cachedHome, Render(validSources))
    /\ cpc' = "server"
    /\ UNCHANGED <<unreadable, broken, rawSources, validSources, idx, cur, todo,
                   walkErr, endpoints>>
    /\ UNCHANGED tailVars
    /\ UNCHANGED outVars
    /\ UNCHANGED cfgVars
    /\ UNCHANGED pathVars
    /\ UNCHANGED srvVars

\* buildServer: register a viewer and a streaming endpoint for every leaf of
\* the catalog. The pattern is the leaf's path behind "/src/", so two equal
\* leaves are two equal patterns and the second registration panics.
BuildServer ==
    /\ cpc = "server"
    /\ LET ls == Leaves(validSources)
           n == Registered(ls) IN
       /\ endpoints' = SubSeq(ls, 1, n)
       /\ cpc' = IF n = Len(ls) THEN "serving" ELSE "panic"
    /\ UNCHANGED <<unreadable, broken, rawSources, validSources, idx, cur, todo,
                   walkErr, cachedHome>>
    /\ UNCHANGED tailVars
    /\ UNCHANGED outVars
    /\ UNCHANGED cfgVars
    /\ UNCHANGED pathVars
    /\ UNCHANGED srvVars

CatalogNext ==
    \/ StatSource
    \/ WalkStep
    \/ EndWalk
    \/ BuildHome
    \/ BuildServer

CatalogSpec == CatalogInit /\ [][CatalogNext]_vars

\* ----------------------------------------------------------------- actions
\* A producer appends a chunk to the log file.
AppendFile(chunks, maxLen) ==
    /\ ~crashed
    /\ Len(file) < maxLen
    /\ \E c \in chunks :
          /\ Len(file) + Len(c) <= maxLen
          /\ file' = file \o c
    /\ UNCHANGED <<pc, drain, conn, handle, buf, fpos, partial, eof,
                   lastKnownSize, sent, sendFailed, crashed, timer>>
    /\ UNCHANGED catVars
    /\ UNCHANGED srvVars
    /\ UNCHANGED outVars
    /\ UNCHANGED cfgVars
    /\ UNCHANGED pathVars

\* The streaming endpoint handler: upgrade, go logReads, call streamLogFile.
\* A failed upgrade is only logged; both tasks start on the nil connection.
Upgrade(s) ==
    /\ ~crashed
    /\ pc[s] = "idle"
    /\ \E ok \in BOOLEAN : conn' = [conn EXCEPT ![s] = IF ok THEN "open" ELSE "nil"]
    /\ drain' = [drain EXCEPT ![s] = "run"]
    /\ pc' = [pc EXCEPT ![s] = "open"]
    /\ UNCHANGED <<file, handle, buf, fpos, partial, eof, lastKnownSize, sent,
                   sendFailed, crashed, timer>>
    /\ UNCHANGED catVars
    /\ UNCHANGED srvVars
    /\ UNCHANGED outVars
    /\ UNCHANGED cfgVars
    /\ UNCHANGED pathVars

\* streamLogFile is left: its reader and its other locals are gone.
DropLocals(s) ==
    /\ buf' = Local(buf, s, <<>>)
    /\ fpos' = Local(fpos, s, 0)
    /\ partial' = Local(partial, s, <<>>)
    /\ eof' = Local(eof, s, FALSE)
    /\ lastKnownSize' = Local(lastKnownSize, s, 0)
    /\ timer' = Local(timer, s, 0)

\* A method call on the nil connection panics; net/http recovers the panic of
\* the handler goroutine, which ends.
Panic(s) ==
    /\ pc' = [pc EXCEPT ![s] = "panic"]
    /\ DropLocals(s)
    /\ UNCHANGED <<conn, sent, sendFailed>>

\* conn.Close() and return.
Return_NoClose(s, exit) ==
    /\ pc' = [pc EXCEPT ![s] = exit]
    /\ UNCHANGED conn
    /\ DropLocals(s)
Return(s, exit) ==
    /\ pc' = [pc EXCEPT ![s] = exit]
    /\ conn' = [conn EXCEPT ![s] = "closed"]
    /\ DropLocals(s)

\* conn.WriteMessage on a connection that is not nil: the message goes out on
\* an open connection, otherwise the call returns an error.
WriteMessage(s, msgs) ==
    IF msgs = <<>>
    THEN UNCHANGED <<sent, sendFailed>>
    ELSE IF conn[s] = "open"
    THEN sent' = [sent EXCEPT ![s] = @ \o msgs] /\ UNCHANGED sendFailed
    ELSE sendFailed' = [sendFailed EXCEPT ![s] = TRUE] /\ UNCHANGED sent

\* streamLogFile: os.Open and the local variables.
OpenFile(s) ==
    /\ ~crashed
    /\ pc[s] = "open"
    /\ \E ok \in BOOLEAN :
          IF ok
          THEN /\ handle' = [handle EXCEPT ![s] = "open"]
               /\ pc' = [pc EXCEPT ![s] = "poll"]
               /\ buf' = Local(buf, s, <<>>)
               /\ fpos' = Local(fpos, s, 0)
               /\ partial' = Local(partial, s, <<>>)
               /\ eof' = Local(eof, s, FALSE)
               /\ lastKnownSize' = Local(lastKnownSize, s, 0)
               /\ timer' = Local(timer, s, 0)
               /\ UNCHANGED <<conn, sent, sendFailed>>
          ELSE /\ IF conn[s] = "nil" THEN Panic(s)
                  ELSE Return(s, "openerr") /\ UNCHANGED <<sent, sendFailed>>
               /\ UNCHANGED handle
    /\ UNCHANGED <<file, drain, crashed>>
    /\ UNCHANGED catVars
    /\ UNCHANGED srvVars
    /\ UNCHANGED outVars
    /\ UNCHANGED cfgVars
    /\ UNCHANGED pathVars

\* streamLogFile: the end-of-file flag after a stat: growth resets it.
EofAfterStat_Sticky(grew, e) == e
EofAfterStat(grew, e) == IF grew THEN FALSE ELSE e

\* time.Duration(n): the integer n taken as a count of nanoseconds. Both are
\* 64 bits wide, and so is n * Millisecond for every n used here.
Duration(n) == n

\* streamLogFile: one stat at the top of the poll loop; with the end-of-file
\* flag still set the read loop is skipped and the timer is armed.
PollStat(s) ==
    /\ ~crashed
    /\ pc[s] = "poll"
    /\ \E ok \in BOOLEAN :
          IF ok
          THEN LET grew == Len(file) > lastKnownSize[s]
                   e == EofAfterStat(grew, eof[s]) IN
               /\ lastKnownSize' = IF grew THEN Local(lastKnownSize, s, Len(file))
                                           ELSE lastKnownSize
               /\ eof' = Local(eof, s, e)
               /\ pc' = [pc EXCEPT ![s] = IF e THEN "wait" ELSE "read"]
               /\ timer' = IF e THEN Local(timer, s, Duration(pollIntervalMs))
                                 ELSE timer
               /\ UNCHANGED <<conn, buf, fpos, partial, sent, sendFailed>>
          ELSE IF conn[s] = "nil" THEN Panic(s)
               ELSE Return(s, "staterr") /\ UNCHANGED <<sent, sendFailed>>
    /\ UNCHANGED <<file, drain, handle, crashed>>
    /\ UNCHANGED catVars
    /\ UNCHANGED srvVars
    /\ UNCHANGED outVars
    /\ UNCHANGED cfgVars
    /\ UNCHANGED pathVars

\* streamLogFile: one iteration of the read loop whose ReadBytes returns a
\* line or io.EOF. The error of WriteMessage is dropped. At io.EOF the loop
\* ends and the timer is armed.
ReadLine(s) ==
    /\ ~crashed
    /\ pc[s] = "read"
    /\ LET r == ReadBytes(s)
           o == IF r.err = "EOF" THEN OnEOF(partial[s], r.line)
                                 ELSE OnLine(partial[s], r.line) IN
       IF o.msgs # <<>> /\ conn[s] = "nil"
       THEN Panic(s)
       ELSE /\ buf' = Local(buf, s, r.buf)
            /\ fpos' = Local(fpos, s, r.off)
            /\ partial' = Local(partial, s, o.partial)
            /\ eof' = IF r.err = "EOF" THEN Local(eof, s, TRUE) ELSE eof
            /\ WriteMessage(s, o.msgs)
            /\ pc' = [pc EXCEPT ![s] = IF r.err = "EOF" THEN "wait" ELSE "read"]
            /\ timer' = IF r.err = "EOF"
                         THEN Local(timer, s, Duration(pollIntervalMs))
                         ELSE timer
            /\ UNCHANGED <<conn, lastKnownSize>>
    /\ UNCHANGED <<file, drain, handle, crashed>>
    /\ UNCHANGED catVars
    /\ UNCHANGED srvVars
    /\ UNCHANGED outVars
    /\ UNCHANGED cfgVars
    /\ UNCHANGED pathVars

\* streamLogFile: ReadBytes fails with an error other than io.EOF; the read
\* returns the bytes buffered so far (k more bytes were pulled before the
\* failing read), none of them a terminator.
ReadFatal(s) ==
    /\ ~crashed
    /\ pc[s] = "read"
    /\ IndexNL(buf[s]) = 0
    /\ \E k \in 0..(Len(file) - fpos[s]) :
          LET line == buf[s] \o SubSeq(file, fpos[s] + 1, fpos[s] + k)
              o == OnReadError(partial[s], line) IN
          /\ IndexNL(line) = 0
          /\ IF conn[s] = "nil"
             THEN Panic(s)
             ELSE WriteMessage(s, o.msgs) /\ Return(s, "readerr")
    /\ UNCHANGED <<file, drain, handle, crashed>>
    /\ UNCHANGED catVars
    /\ UNCHANGED srvVars
    /\ UNCHANGED outVars
    /\ UNCHANGED cfgVars
    /\ UNCHANGED pathVars

\* logReads: conn.ReadMessage returns an error once the connection is closed
\* by either side. On the nil connection it panics in its own goroutine, which
\* nothing recovers: the process dies, and with it every session.
LogReads(s) ==
    /\ ~crashed
    /\ drain[s] = "run"
    /\ conn[s] # "open"
    /\ IF conn[s] = "nil"
       THEN /\ crashed' = TRUE
            /\ pc' = [t \in Sessions |-> "idle"]
            /\ drain' = [t \in Sessions |-> "none"]
            /\ conn' = [t \in Sessions |-> "none"]
            /\ handle' = [t \in Sessions |-> "none"]
            /\ buf' = [t \in Sessions |-> <<>>]
            /\ fpos' = [t \in Sessions |-> 0]
            /\ partial' = [t \in Sessions |-> <<>>]
            /\ eof' = [t \in Sessions |-> FALSE]
            /\ lastKnownSize' = [t \in Sessions |-> 0]
            /\ sendFailed' = [t \in Sessions |-> FALSE]
            /\ timer' = [t \in Sessions |-> 0]
       ELSE /\ drain' = [drain EXCEPT ![s] = "done"]
            /\ UNCHANGED <<pc, conn, handle, buf, fpos, partial, eof,
                           lastKnownSize, sendFailed, crashed, timer>>
    /\ UNCHANGED <<file, sent>>
    /\ UNCHANGED catVars
    /\ UNCHANGED srvVars
    /\ UNCHANGED outVars
    /\ UNCHANGED cfgVars
    /\ UNCHANGED pathVars

\* The viewer closes its end of the connection.
ViewerClose(s) ==
    /\ ~crashed
    /\ conn[s] = "open"
    /\ conn' = [conn EXCEPT ![s] = "peerClosed"]
    /\ UNCHANGED <<file, pc, drain, handle, buf, fpos, partial, eof,
                   lastKnownSize, sent, sendFailed, crashed, timer>>
    /\ UNCHANGED catVars
    /\ UNCHANGED srvVars
    /\ UNCHANGED outVars
    /\ UNCHANGED cfgVars
    /\ UNCHANGED pathVars

\* streamLogFile: <-t.C, the end of the wait between two poll cycles: the
\* timer has run out.
TimerFire(s) ==
    /\ ~crashed
    /\ pc[s] = "wait"
    /\ timer' = Local(timer, s, 0)
    /\ pc' = [pc EXCEPT ![s] = "poll"]
    /\ UNCHANGED <<file, drain, conn, handle, buf, fpos, partial, eof,
                   lastKnownSize, sent, sendFailed, crashed>>
    /\ UNCHANGED catVars
    /\ UNCHANGED srvVars
    /\ UNCHANGED outVars
    /\ UNCHANGED cfgVars
    /\ UNCHANGED pathVars

\* The steps of one streamLogFile call.
StreamStep(s) == OpenFile(s) \/ PollStat(s) \/ ReadLine(s) \/ ReadFatal(s) \/ TimerFire(s)

\* Everything one streaming request does, and what its viewer does.
Session(s) ==
    \/ Upgrade(s)
    \/ OpenFile(s)
    \/ PollStat(s)
    \/ ReadLine(s)
    \/ ReadFatal(s)
    \/ TimerFire(s)
    \/ LogReads(s)
    \/ ViewerClose(s)

\* One viewer tails the file.
Next ==
    \/ AppendFile(Chunks, MaxFileLen)
    \/ \E s \in Solo : Session(s)

Spec == Init /\ [][Next]_vars

\* The Go scheduler runs every runnable goroutine: the send loop and the
\* drain task of a session each keep taking their steps.
FairSpec ==
    /\ Spec
    /\ \A s \in Solo : WF_vars(StreamStep(s)) /\ WF_vars(LogReads(s))

\* One viewer tails a file of short lines, under the same scheduling.
GrowNext ==
    \/ AppendFile(PairChunks, MaxGrowLen)
    \/ \E s \in Solo : Session(s)

GrowSpec ==
    /\ Init /\ [][GrowNext]_vars
    /\ \A s \in Solo : WF_vars(StreamStep(s)) /\ WF_vars(LogReads(s))

\* Two viewers tail the same file.
PairNext ==
    \/ AppendFile(PairChunks, MaxPairLen)
    \/ \E s \in Sessions : Session(s)

PairSpec == Init /\ [][PairNext]_vars

\* ------------------------------------------------------ serving actions
\* The catalog variables other than the position in startServer.
scanVars == <<unreadable, broken, rawSources, validSources, idx, cur, todo,
              walkErr, cachedHome, endpoints>>

\* The process is alive and startServer has not ended.
Running == ~crashed /\ cpc \notin {"panic", "failed", "returned"}

\* startServer: sr.s.ListenAndServe binds the port, or fails and returns the
\* error.
Listen ==
    /\ Running
    /\ cpc = "serving"
    /\ listener = "none"
    /\ \E ok \in BOOLEAN :
          IF ok THEN listener' = "open" /\ UNCHANGED cpc
                ELSE cpc' = "failed" /\ UNCHANGED listener
    /\ UNCHANGED <<reqs, pages>>
    /\ UNCHANGED scanVars
    /\ UNCHANGED tailVars
    /\ UNCHANGED outVars
    /\ UNCHANGED cfgVars
    /\ UNCHANGED pathVars

\* net/http accepts a connection and reads a request for "/" ("home") or for
\* "/$" ("quit"); its connection is active until the handler has returned.
Accept(kind) ==
    /\ Running
    /\ listener = "open"
    /\ Len(reqs) < MaxRequests
    /\ reqs' = Append(reqs, [kind |-> kind, st |-> "accepted", code |-> 0,
                             go |-> "none"])
    /\ UNCHANGED <<listener, pages>>
    /\ UNCHANGED catVars
    /\ UNCHANGED tailVars
    /\ UNCHANGED outVars
    /\ UNCHANGED cfgVars
    /\ UNCHANGED pathVars

\* The listing handler: w.Write(*sr.cachedHome.Load()). Dereferencing the nil
\* pointer panics; net/http recovers it and drops the connection.
HandleHome(i) ==
    /\ Running
    /\ i \in 1..Len(reqs)
    /\ reqs[i].kind = "home" /\ reqs[i].st = "accepted"
    /\ IF cachedHome = <<>>
       THEN /\ reqs' = [reqs EXCEPT ![i].st = "done", ![i].code = 500]
            /\ UNCHANGED pages
       ELSE /\ reqs' = [reqs EXCEPT ![i].st = "handled", ![i].code = 200]
            /\ pages' = pages \cup {Load(cachedHome)}
    /\ UNCHANGED listener
    /\ UNCHANGED catVars
    /\ UNCHANGED tailVars
    /\ UNCHANGED outVars
    /\ UNCHANGED cfgVars
    /\ UNCHANGED pathVars

\* The shutdown handler: redirect to "/" and start the shutdown goroutine.
HandleQuit(i) ==
    /\ Running
    /\ i \in 1..Len(reqs)
    /\ reqs[i].kind = "quit" /\ reqs[i].st = "accepted"
    /\ reqs' = [reqs EXCEPT ![i].st = "handled", ![i].code = 302,
                            ![i].go = "spawned"]
    /\ UNCHANGED <<listener, pages>>
    /\ UNCHANGED catVars
    /\ UNCHANGED tailVars
    /\ UNCHANGED outVars
    /\ UNCHANGED cfgVars
    /\ UNCHANGED pathVars

\* A handler has returned: its connection is idle.
Finish(i) ==
    /\ Running
    /\ i \in 1..Len(reqs)
    /\ reqs[i].st = "handled"
    /\ reqs' = [reqs EXCEPT ![i].st = "done"]
    /\ UNCHANGED <<listener, pages>>
    /\ UNCHANGED catVars
    /\ UNCHANGED tailVars
    /\ UNCHANGED outVars
    /\ UNCHANGED cfgVars
    /\ UNCHANGED pathVars

\* sr.s.Shutdown, first part: the listeners are closed.
ShutdownBegin(i) ==
    /\ Running
    /\ i \in 1..Len(reqs)
    /\ reqs[i].go = "spawned"
    /\ reqs' = [reqs EXCEPT ![i].go = "draining"]
    /\ listener' = "closed"
    /\ UNCHANGED pages
    /\ UNCHANGED catVars
    /\ UNCHANGED tailVars
    /\ UNCHANGED outVars
    /\ UNCHANGED cfgVars
    /\ UNCHANGED pathVars

\* http.Server.Shutdown waits for the connections that are serving a request.
\* A connection hijacked by a websocket upgrade is not the server's any more;
\* the connection of a failed upgrade still is, while its handler runs.
NoActiveConn_Hijacked ==
    /\ \A j \in 1..Len(reqs) : reqs[j].st = "done"
    /\ \A s \in Sessions : pc[s] \in {"idle"} \cup Stopped
NoActiveConn ==
    /\ \A j \in 1..Len(reqs) : reqs[j].st = "done"
    /\ \A s \in Sessions : conn[s] = "nil" => pc[s] \in Stopped

\* sr.s.Shutdown, second part: it returns once no connection is active; the
\* goroutine goes on to the channel send.
ShutdownDrained(i) ==
    /\ Running
    /\ i \in 1..Len(reqs)
    /\ reqs[i].go = "draining"
    /\ NoActiveConn
    /\ reqs' = [reqs EXCEPT ![i].go = "sending"]
    /\ UNCHANGED <<listener, pages>>
    /\ UNCHANGED catVars
    /\ UNCHANGED tailVars
    /\ UNCHANGED outVars
    /\ UNCHANGED cfgVars
    /\ UNCHANGED pathVars

\* startServer: ListenAndServe returns http.ErrServerClosed as soon as the
\* listeners are closed; startServer goes on to receive from the channel.
ServeReturns ==
    /\ Running
    /\ cpc = "serving"
    /\ listener = "closed"
    /\ cpc' = "awaiting"
    /\ UNCHANGED srvVars
    /\ UNCHANGED scanVars
    /\ UNCHANGED tailVars
    /\ UNCHANGED outVars
    /\ UNCHANGED cfgVars
    /\ UNCHANGED pathVars

\* The unbuffered channel: the send of a shutdown goroutine meets the receive
\* of startServer, which returns nil.
Handoff(i) ==
    /\ Running
    /\ i \in 1..Len(reqs)
    /\ reqs[i].go = "sending"
    /\ cpc = "awaiting"
    /\ reqs' = [reqs EXCEPT ![i].go = "sent"]
    /\ cpc' = "returned"
    /\ UNCHANGED <<listener, pages>>
    /\ UNCHANGED scanVars
    /\ UNCHANGED tailVars
    /\ UNCHANGED outVars
    /\ UNCHANGED cfgVars
    /\ UNCHANGED pathVars

\* A streaming request whose websocket handshake succeeds, while the process
\* runs; a new one needs the listener.
ServedSession(s) ==
    /\ Running
    /\ pc[s] = "idle" => listener = "open"
    /\ Session(s)
    /\ conn'[s] # "nil"

\* The steps of the shutdown goroutines and of startServer after them.
ShutdownStep ==
    \/ \E i \in 1..MaxRequests : ShutdownBegin(i) \/ ShutdownDrained(i) \/ Handoff(i)
    \/ ServeReturns

\* The steps of the handlers of "/" and "/$".
HandlerStep == \E i \in 1..MaxRequests : HandleHome(i) \/ HandleQuit(i) \/ Finish(i)

\* The running server: listing and shutdown requests, and one viewer.
ServeNext ==
    \/ \E kind \in {"home", "quit"} : Accept(kind)
    \/ HandlerStep
    \/ ShutdownStep
    \/ \E s \in Solo : ServedSession(s)

\* Every goroutine that can run does: the handlers, the shutdown goroutines and
\* startServer itself.
ServeSpec ==
    /\ Init /\ [][ServeNext]_vars
    /\ WF_vars(HandlerStep)
    /\ WF_vars(ShutdownStep)

\* startServer is about to call ListenAndServe.
ListenInit == TailInit /\ Built /\ listener = "none" /\ Defaults

\* The server from ListenAndServe on: the port is bound or not, then requests
\* and one viewer, under the same scheduling.
ListenNext == Listen \/ ServeNext

ListenSpec ==
    /\ ListenInit /\ [][ListenNext]_vars
    /\ WF_vars(Listen)
    /\ WF_vars(HandlerStep)
    /\ WF_vars(ShutdownStep)

\* Startup on a readable file system, up to serving listing requests.
StartInit == CatalogInit /\ unreadable = {} /\ broken = {}

StartNext ==
    \/ CatalogNext
    \/ Listen
    \/ Accept("home")
    \/ \E i \in 1..MaxRequests : HandleHome(i) \/ Finish(i)

StartSpec == StartInit /\ [][StartNext]_vars

\* ------------------------------------------------------- capture actions
\* The rolling writer, one Write: the first write creates the first chunk; a
\* write that would push the current chunk past the limit closes it and goes
\* to a new chunk; otherwise it is appended to the current chunk.
RollWrite_Split(cs, p) ==
    IF cs = <<>> THEN <<p>>
    ELSE LET last == cs[Len(cs)]
             room == MaxBytesPerChunk - Len(last) IN
         IF Len(last) + Len(p) > MaxBytesPerChunk
         THEN [cs EXCEPT ![Len(cs)] = last \o SubSeq(p, 1, room)]
                  \o <<SubSeq(p, room + 1, Len(p))>>
         ELSE [cs EXCEPT ![Len(cs)] = last \o p]
RollWrite(cs, p) ==
    IF cs = <<>> THEN <<p>>
    ELSE LET last == cs[Len(cs)] IN
         IF Len(last) + Len(p) > MaxBytesPerChunk
         THEN Append(cs, p)
         ELSE [cs EXCEPT ![Len(cs)] = last \o p]

\* startCapture: io.Copy hands the next bytes of standard input to the writer
\* in one Write; its buffer is shorter than the chunk limit.
CaptureWrite ==
    /\ \E p \in PairChunks :
          /\ Len(written) + Len(p) <= MaxWritten
          /\ Len(p) <= MaxBytesPerChunk
          /\ chunkFiles' = RollWrite(chunkFiles, p)
          /\ written' = written \o p
    /\ UNCHANGED tailVars
    /\ UNCHANGED catVars
    /\ UNCHANGED srvVars
    /\ UNCHANGED cfgVars
    /\ UNCHANGED pathVars

\* Capture mode with rolling enabled: nothing but the copy loop runs.
CaptureInit ==
    /\ TailInit
    /\ unreadable = {} /\ broken = {} /\ rawSources = <<>>
    /\ validSources = <<>> /\ idx = 1 /\ cpc = "capture" /\ cur = ZeroVsd
    /\ todo = <<>> /\ walkErr = FALSE /\ cachedHome = <<>> /\ endpoints = <<>>
    /\ listener = "none" /\ reqs = <<>> /\ pages = {}
    /\ chunkFiles = <<>>
    /\ written = <<>>
    /\ Defaults

CaptureSpec == CaptureInit /\ [][CaptureWrite]_vars

\* ------------------------------------------------ path resolution actions
\* resolveRelativePath(arg)
ShowPath ==
    /\ ppc = "start"
    /\ shown' = resolveRelativePath(arg, homePath)
    /\ ppc' = "shown"
    /\ UNCHANGED <<arg, resolved>>
    /\ UNCHANGED tailVars
    /\ UNCHANGED catVars
    /\ UNCHANGED srvVars
    /\ UNCHANGED outVars
    /\ UNCHANGED cfgVars

\* resolveAbsolutePath of the path resolveRelativePath returned.
ResolveShown ==
    /\ ppc = "shown"
    /\ ~shown.err
    /\ resolved' = resolveAbsolutePath(shown.p, homePath, wd)
    /\ ppc' = "resolved"
    /\ UNCHANGED <<arg, shown>>
    /\ UNCHANGED tailVars
    /\ UNCHANGED catVars
    /\ UNCHANGED srvVars
    /\ UNCHANGED outVars
    /\ UNCHANGED cfgVars

\* resolveAbsolutePath(arg), as startServer calls it on a source path.
ResolveArg ==
    /\ ppc = "start"
    /\ resolved' = resolveAbsolutePath(arg, homePath, wd)
    /\ ppc' = "direct"
    /\ UNCHANGED <<arg, shown>>
    /\ UNCHANGED tailVars
    /\ UNCHANGED catVars
    /\ UNCHANGED srvVars
    /\ UNCHANGED outVars
    /\ UNCHANGED cfgVars

\* A home, a working directory and a path to resolve.
PathInit ==
    /\ TailInit /\ Served
    /\ pollIntervalMs = DefaultPolling
    /\ homePath \in {AbsPath(d) : d \in Homes}
    /\ wd \in {AbsPath(d) : d \in WorkDirs}
    /\ arg \in Paths
    /\ shown = NoResult
    /\ resolved = NoResult
    /\ ppc = "start"

PathNext == ShowPath \/ ResolveShown \/ ResolveArg

PathSpec == PathInit /\ [][PathNext]_vars

\* ------------------------------------------------------- polling interval
\* The values of the -polling flag.
PollIntervals == (1..MaxPollInterval) \cup {DefaultPolling}

\* One viewer tails the file, for each value of the flag.
PollInit ==
    /\ TailInit /\ Served
    /\ pollIntervalMs \in PollIntervals
    /\ homePath = DefaultHome /\ wd = DefaultHome /\ arg = ZeroPath
    /\ shown = NoResult /\ resolved = NoResult /\ ppc = "none"

PollNext ==
    \/ AppendFile(PairChunks, MaxPairLen)
    \/ \E s \in Solo : Session(s)

PollSpec == PollInit /\ [][PollNext]_vars

\* ------------------------------------------------------------ vocabulary
\* The read position of a session's reader: bytes handed out by ReadBytes.
Consumed(s) == fpos[s] - Len(buf[s])

Prefix(s) == SubSeq(file, 1, Consumed(s))

\* The send loop is running and every WriteMessage so far succeeded.
Healthy(s) == pc[s] \in {"poll", "read", "wait"} /\ ~sendFailed[s]

\* Reading a whole content at once and splitting it after each terminator:
\* the terminated lines, and the unterminated remainder.
RECURSIVE Lines(_)
Lines(q) ==
    LET i == IndexNL(q) IN
    IF i = 0 THEN <<>> ELSE <<SubSeq(q, 1, i)>> \o Lines(SubSeq(q, i + 1, Len(q)))

RECURSIVE Rest(_)
Rest(q) ==
    LET i == IndexNL(q) IN
    IF i = 0 THEN q ELSE Rest(SubSeq(q, i + 1, Len(q)))

RECURSIVE Flatten(_)
Flatten(ms) == IF ms = <<>> THEN <<>> ELSE Head(ms) \o Flatten(Tail(ms))

Terminated(m) == Len(m) > 0 /\ m[Len(m)] = NL

\* m is one line: a single terminator, at its end.
OneLine(m) == Terminated(m) /\ IndexNL(m) = Len(m)

\* ------------------------------------------------------------------ claims
\* C1: whatever the appends and whatever the positions at which the reads of
\* a healthy session hit end-of-data, the messages it has sent are exactly the
\* lines obtained by splitting the content it has read so far in one go; once
\* it waits with everything read, they are the lines of the whole file.
C1_SplitInvariance ==
    \A s \in Sessions :
        Healthy(s) =>
            /\ sent[s] = Lines(Prefix(s))
            /\ (pc[s] = "wait" /\ Consumed(s) = Len(file)) => sent[s] = Lines(file)

\* C1 witness: a session that hit end-of-data in the middle of a line after
\* having delivered a line, and has read the whole file.
C1_Witness ==
    \E s \in Sessions :
        /\ Healthy(s) /\ pc[s] = "wait"
        /\ Len(sent[s]) >= 1 /\ partial[s] # <<>>
        /\ Consumed(s) = Len(file)

\* C2: every message delivered by a healthy session is the line without its
\* line terminator.
C2_NoTerminatorInMessage ==
    \A s \in Sessions :
        Healthy(s) => \A i \in 1..Len(sent[s]) : IndexNL(sent[s][i]) = 0

\* C3: no premature delivery. Short of a fatal read error every message sent
\* ends with a terminator and the unterminated fragment read so far is held in
\* the carry-over; after a fatal read error only the last message may be an
\* unterminated fragment.
C3_NoPrematureDelivery ==
    \A s \in Sessions :
        /\ pc[s] # "readerr" => \A i \in 1..Len(sent[s]) : Terminated(sent[s][i])
        /\ pc[s] = "readerr" => \A i \in 1..(Len(sent[s]) - 1) : Terminated(sent[s][i])
        /\ Healthy(s) => partial[s] = Rest(Prefix(s))

\* C3 witness: a fragment is held over a finished poll cycle that saw the
\* whole file, nothing of it sent.
C3_Witness ==
    \E s \in Sessions :
        /\ Healthy(s) /\ pc[s] = "wait" /\ eof[s]
        /\ lastKnownSize[s] = Len(file)
        /\ Len(partial[s]) >= 2
        /\ Flatten(sent[s]) \o partial[s] = file

\* C4: in a healthy session the messages sent, in order, followed by the
\* carry-over are exactly the bytes read from the file so far, and every
\* message is one line: lines are sent in file order, once each, unmerged.
C4_ExactlyOnceInOrder ==
    \A s \in Sessions :
        Healthy(s) =>
            /\ Flatten(sent[s]) \o partial[s] = Prefix(s)
            /\ \A i \in 1..Len(sent[s]) : OneLine(sent[s][i])

\* C4 witness: two different lines were sent, in file order.
C4_Witness ==
    \E s \in Sessions :
        /\ Healthy(s)
        /\ sent[s] = << <<"a", NL>>, <<"b", NL>> >>

\* C5: once the drain task has exited on a read error, the send loop of that
\* session eventually stops too.
C5_SendLoopStopsAfterDrain ==
    \A s \in Sessions : (drain[s] = "done") ~> (pc[s] \in Stopped)

\* C6: whenever streamLogFile has returned, the file it opened is closed.
C6_HandleReleased ==
    \A s \in Sessions : pc[s] \in Returned => handle[s] # "open"

\* The local state of a tail session.
LocalsOf(s) ==
    <<handle[s], fpos[s], buf[s], partial[s], eof[s], lastKnownSize[s], timer[s]>>

\* A step in which session s meets a session error: its send loop ends, or its
\* drain task fails on the connection a failed upgrade left absent.
SessionErrorStep(s) ==
    \/ pc[s] \notin Stopped /\ pc'[s] \in Stopped
    \/ conn[s] = "nil" /\ drain[s] = "run" /\ crashed' # crashed

\* C7: a session error ends only the affected session; the other sessions'
\* state is unchanged and the process stays up.
C7_SessionErrorIsolated ==
    [][\A s \in Sessions :
          SessionErrorStep(s) =>
              /\ ~crashed'
              /\ \A t \in Sessions \ {s} :
                    /\ LocalsOf(t)' = LocalsOf(t)
                    /\ conn'[t] = conn[t] /\ pc'[t] = pc[t]]_vars

\* C8: two sessions on the same growing file each send the lines of the file
\* in file order from their own read position, and a finished poll cycle has
\* read at least up to the size it stat'ed; no step of the running process
\* changes the local state of more than one session.
C8_IndependentSessions ==
    /\ [](\A s \in Sessions :
            Healthy(s) =>
                /\ sent[s] = Lines(Prefix(s))
                /\ pc[s] = "wait" => Consumed(s) >= lastKnownSize[s])
    /\ [][~crashed' =>
            \A s \in Sessions :
                LocalsOf(s)' # LocalsOf(s) =>
                    \A t \in Sessions \ {s} : LocalsOf(t)' = LocalsOf(t)]_vars

\* C8 witness: both sessions have delivered the first line, one of them is
\* ahead of the other.
C8_Witness ==
    /\ \A s \in Sessions : Healthy(s) /\ Len(sent[s]) >= 1
    /\ Consumed("s1") # Consumed("s2")

\* statSources has returned.
Scanned == cpc \in {"server", "serving", "panic"}

Range(q) == {q[i] : i \in 1..Len(q)}

IsPrefix(a, b) == Len(a) <= Len(b) /\ SubSeq(b, 1, Len(a)) = a

\* C9: a valid raw source that is an existing regular file with the log-file
\* suffix is in the catalog as a leaf without children, and once the server
\* is built it has its endpoints.
C9_FileSourceCatalogued ==
    Scanned =>
        \A i \in 1..Len(rawSources) :
            LET src == rawSources[i] IN
            (src.valid /\ src.absPath \in LogFiles /\ StatOK(src.absPath)) =>
                /\ \E j \in 1..Len(validSources) :
                      validSources[j] = [path |-> src.absPath, isDir |-> FALSE, sub |-> <<>>]
                /\ cpc = "serving" => src.absPath \in Range(endpoints)

\* The paths a complete walk visits, in visiting order.
RECURSIVE PreOrder(_)
PreOrder(ps) ==
    IF ps = <<>> THEN <<>>
    ELSE <<Head(ps)>> \o PreOrder(ReadDir(Head(ps))) \o PreOrder(Tail(ps))

\* The paths visited up to and including the first directory that cannot be
\* listed.
VisitedBeforeError(root) ==
    LET order == PreOrder(<<root>>)
        bad == {k \in 1..Len(order) : order[k] \in unreadable} IN
    IF bad = {} THEN order
    ELSE SubSeq(order, 1, CHOOSE k \in bad : \A m \in bad : k <= m)

Eligible(p) == HasLogSuffix(p) /\ StatOK(p)

\* The raw sources that are directories that can be stat'ed.
DirSource(src) == src.valid /\ StatOK(src.absPath) /\ IsDir(src.absPath)

\* C10: a walk error discards nothing. Every catalog entry holds the log files
\* the walk met up to the failing path, a directory source is recorded whether
\* or not its walk was aborted, the sources after it are processed, and the
\* children collected and the catalog only ever grow.
C10_WalkFailureIsolated ==
    /\ [](/\ \A j \in 1..Len(validSources) :
               PathsOf(validSources[j].sub)
                   = SelectSeq(VisitedBeforeError(validSources[j].path), Eligible)
          /\ Scanned =>
               [j \in 1..Len(validSources) |-> validSources[j].path]
                   = [j \in 1..Len(SelectSeq(rawSources, DirSource)) |->
                          SelectSeq(rawSources, DirSource)[j].absPath])
    /\ [][/\ IsPrefix(validSources, validSources')
          /\ (cpc = "walk" /\ cpc' = "walk") => IsPrefix(cur.sub, cur'.sub)
          /\ (cpc = "walk" /\ cpc' # "walk") => validSources' = Append(validSources, cur)]_vars

\* C10 witness: the walk of "/logs" was aborted at "/logs/b" after it had
\* found "/logs/a.log"; that file and the source are in the catalog, and the
\* source listed after it was processed and recorded too.
C10_Witness ==
    /\ cpc = "serving"
    /\ "/logs/b" \in unreadable
    /\ Len(validSources) = 2
    /\ validSources[1].path = "/logs"
    /\ PathsOf(validSources[1].sub) = <<"/logs/a.log">>
    /\ validSources[2].path = "/logs/b"

\* C11: overlapping raw sources are not deduplicated and startup goes on to
\* serve: once buildServer is over, the server is serving and an endpoint was
\* registered for every occurrence of every leaf of every catalog entry.
C11_DuplicateEndpointsServed ==
    cpc \in {"serving", "panic"} =>
        /\ cpc = "serving"
        /\ endpoints = Leaves(validSources)

\* The paths below a directory.
Descendants(d) == Range(PreOrder(ReadDir(d)))

\* C15: a walk error aborts only the failing subtree: once the scan is over,
\* every log path of a directory source that lies below no unreadable
\* directory is among the source's children.
C15_OnlySubtreeAborted ==
    Scanned =>
        \A j \in 1..Len(validSources) :
            \A p \in Range(PreOrder(<<validSources[j].path>>)) :
                (Eligible(p) /\ \A u \in unreadable : p \notin Descendants(u))
                    => p \in Range(PathsOf(validSources[j].sub))

\* C19: every child of a directory source is a non-directory leaf.
C19_ChildrenAreLeaves ==
    \A j \in 1..Len(validSources) :
        \A i \in 1..Len(validSources[j].sub) : ~validSources[j].sub[i].isDir


\* C16: a failed send ends the session: once a WriteMessage has returned an
\* error, streamLogFile has stopped.
C16_SendErrorEndsSession ==
    \A s \in Sessions : sendFailed[s] => pc[s] \in Stopped

\* C17: on a fatal read error the carry-over joined with the bytes the failing
\* read returned goes out as one last message when that join is not empty, and
\* nothing goes out when it is empty; the connection is closed, streamLogFile
\* has returned, and nothing is sent afterwards.
C17_FatalReadFinalMessage ==
    [][\A s \in Sessions :
          /\ (pc[s] = "read" /\ pc'[s] = "readerr") =>
                /\ conn'[s] = "closed"
                /\ conn[s] = "open" =>
                      \E k \in 0..(Len(file) - fpos[s]) :
                          LET last == partial[s] \o buf[s]
                                          \o SubSeq(file, fpos[s] + 1, fpos[s] + k) IN
                          sent'[s] = IF last # <<>> THEN Append(sent[s], last)
                                                    ELSE sent[s]
          /\ pc[s] = "readerr" => (pc'[s] = "readerr" /\ sent'[s] = sent[s])]_vars

\* C17 witness: after a line was delivered, a fatal read error flushed an
\* unterminated fragment as the last message and ended the session.
C17_Witness ==
    \E s \in Sessions :
        /\ pc[s] = "readerr" /\ conn[s] = "closed"
        /\ Len(sent[s]) = 2
        /\ Terminated(sent[s][1])
        /\ Len(sent[s][2]) = 2 /\ ~Terminated(sent[s][2])

\* C18: when the open fails the connection is closed at once, no message is
\* delivered, no file is held, and the session stays ended: no retry, no poll
\* cycle.
C18_OpenFailureEndsSession ==
    /\ [](\A s \in Sessions :
            pc[s] = "openerr" =>
                /\ conn[s] = "closed"
                /\ sent[s] = <<>>
                /\ handle[s] = "none")
    /\ [][\A s \in Sessions : pc[s] = "openerr" => pc'[s] = "openerr"]_vars

\* C18 witness: the open failed on a file that holds a line; the session is
\* over and its drain task has seen the closed connection.
C18_Witness ==
    \E s \in Sessions :
        /\ pc[s] = "openerr" /\ conn[s] = "closed" /\ drain[s] = "done"
        /\ Lines(file) # <<>>


\* The session is running on an open connection and no send has failed.
Live(s) == Healthy(s) /\ conn[s] = "open"

\* C20: growth is never missed. At every poll wait the read position is at
\* least the last known size, so a file longer than what was read is longer
\* than the last known size; and every terminated line in the file is
\* eventually delivered by a session that stays live.
C20_GrowthNeverMissed ==
    /\ [](\A s \in Sessions :
            (Healthy(s) /\ pc[s] = "wait") =>
                /\ Consumed(s) >= lastKnownSize[s]
                /\ Len(file) > Consumed(s) => Len(file) > lastKnownSize[s])
    /\ \A s \in Solo : \A n \in 1..MaxGrowLen :
          (Live(s) /\ Len(Lines(file)) >= n)
              ~> (~Live(s) \/ (Len(sent[s]) >= n /\ sent[s][n] = Lines(file)[n]))

\* C20 witness: a line was appended after the stat of a cycle whose reads
\* consumed it: the session waits having read and delivered more than the
\* size it last stat'ed.
C20_Witness ==
    \E s \in Sessions :
        /\ Live(s) /\ pc[s] = "wait"
        /\ Consumed(s) > lastKnownSize[s] /\ lastKnownSize[s] > 0
        /\ Len(sent[s]) = 2


\* The shutdown control path has been visited: its handler has run.
Visited == \E i \in 1..Len(reqs) : reqs[i].kind = "quit" /\ reqs[i].st # "accepted"

\* A shutdown goroutine has called Shutdown.
ShuttingDown == \E i \in 1..Len(reqs) : reqs[i].go \in {"draining", "sending", "sent"}

\* C12: a visit of the shutdown path is answered with the redirect to the
\* listing; once Shutdown is called the listener is closed for good; the send
\* on the channel comes only after the drain found no active connection;
\* startServer returns only after that send; and after a visit startServer
\* eventually returns nil.
C12_ShutdownCompletes ==
    /\ [](\A i \in 1..Len(reqs) :
            (reqs[i].kind = "quit" /\ reqs[i].st # "accepted") => reqs[i].code = 302)
    /\ [](ShuttingDown => listener = "closed")
    /\ [](cpc = "returned" => \E i \in 1..Len(reqs) : reqs[i].go = "sent")
    /\ [][\A i \in 1..Len(reqs) :
            (reqs[i].go = "draining" /\ reqs'[i].go = "sending") => NoActiveConn]_vars
    /\ Visited ~> (cpc = "returned")

\* C12 witness: startServer has returned nil after two visits of the shutdown
\* path, while a viewer's tail session was still polling.
C12_Witness ==
    /\ cpc = "returned"
    /\ Len(reqs) = 2 /\ reqs[1].kind = "quit" /\ reqs[2].kind = "quit"
    /\ \E s \in Sessions : conn[s] = "open" /\ pc[s] = "wait"

\* C14: every listing request is answered with the complete rendering of the
\* catalog built at startup; the cache cell holds that page from before the
\* listener opens, and it only ever changes from empty to that whole page.
C14_ListingAlwaysComplete ==
    /\ [](/\ \A i \in 1..Len(reqs) :
               (reqs[i].kind = "home" /\ reqs[i].st # "accepted") => reqs[i].code = 200
          /\ \A body \in pages : body = Render(validSources)
          /\ listener # "none" => cachedHome = <<Render(validSources)>>)
    /\ [][cachedHome' # cachedHome =>
            cachedHome = <<>> /\ cachedHome' = <<Render(validSources')>>]_vars

\* C14 witness: two listing requests were answered with a page that lists a
\* log file.
C14_Witness ==
    /\ Len(reqs) = 2
    /\ \A i \in 1..2 : reqs[i].kind = "home" /\ reqs[i].code = 200
    /\ \E body \in pages : \E j \in 1..Len(body) : body[j].links # <<>>


\* C13: rotation boundary. Every write lands whole in one chunk, in a new one
\* exactly when it would push the current chunk past the limit; no chunk
\* exceeds the limit; once more than the limit has been written there are at
\* least two chunks; and the chunks concatenated in order are the bytes
\* written.
C13_RotationBoundary ==
    /\ [](/\ Flatten(chunkFiles) = written
          /\ \A i \in 1..Len(chunkFiles) : Len(chunkFiles[i]) <= MaxBytesPerChunk
          /\ Len(written) > MaxBytesPerChunk => Len(chunkFiles) >= 2)
    /\ [][written' # written =>
            LET p == SubSeq(written', Len(written) + 1, Len(written')) IN
            IF /\ chunkFiles # <<>>
               /\ Len(chunkFiles[Len(chunkFiles)]) + Len(p) <= MaxBytesPerChunk
            THEN chunkFiles' = [chunkFiles EXCEPT ![Len(chunkFiles)] = @ \o p]
            ELSE chunkFiles' = Append(chunkFiles, p)]_vars

\* C13 witness: a write of two bytes met a chunk with room for one: the chunk
\* was left short and the write went whole into the next chunk.
C13_Witness ==
    /\ Len(chunkFiles) >= 2
    /\ Len(chunkFiles[1]) = MaxBytesPerChunk - 1
    /\ Len(chunkFiles[2]) >= 2

\* ---------------------------------------------------------------- C22
\* C22: the drain task and the send loop of a tail session run only on an
\* upgraded connection: while a session's connection is the nil one of a
\* failed upgrade, its logReads is not running and its streamLogFile is at
\* none of its steps.
C22_TasksOnlyOnUpgraded ==
    \A s \in Sessions :
        conn[s] = "nil" =>
            /\ drain[s] # "run"
            /\ pc[s] \notin {"open", "poll", "read", "wait"}

\* ---------------------------------------------------------------- C21
\* C21: while a tail session waits between two poll cycles, the duration its
\* timer was armed with is the polling interval in milliseconds:
\* pollIntervalMs * 1,000,000 nanoseconds.
C21_WaitIsIntervalInMillis ==
    \A s \in Sessions :
        pc[s] = "wait" => timer[s] = pollIntervalMs * Millisecond

\* ---------------------------------------------------------------- C24
\* An absolute path, written without "." and "..", that lies under the home
\* directory or is the home directory.
RootedAtHome(p) ==
    /\ IsAbs(p)
    /\ Clean(p) = p
    /\ IsPrefix(homePath.segs, p.segs)

\* C24: for a path rooted at the home, resolveAbsolutePath of what
\* resolveRelativePath returned for it is the path again, whatever the
\* working directory.
C24_PathRoundTrip ==
    (ppc = "resolved" /\ RootedAtHome(arg)) =>
        (~resolved.err /\ resolved.p = arg)

\* ---------------------------------------------------------------- C23
\* A shutdown goroutine is blocked in its send on the channel.
Sending(i) == i <= Len(reqs) /\ reqs[i].go = "sending"

\* Its send has met the receive of startServer.
Sent(i) == i <= Len(reqs) /\ reqs[i].go = "sent"

\* C23: startServer returns nil only from its receive on the channel, which
\* it reaches only once the listener is closed, and only by taking the signal
\* of a shutdown goroutine whose Shutdown has returned; when the port cannot
\* be bound it returns the error straight from ListenAndServe; and however
\* many times the shutdown path is visited, startServer does not return while
\* a shutdown goroutine is in its send, and every shutdown goroutine that
\* reaches its send gets its signal through.
C23_ShutdownOrdering ==
    /\ [][(cpc' = "awaiting" /\ cpc # "awaiting") =>
              (cpc = "serving" /\ listener = "closed")]_vars
    /\ [][(cpc' = "returned" /\ cpc # "returned") =>
              /\ cpc = "awaiting" /\ listener = "closed"
              /\ \E i \in 1..Len(reqs) : Sending(i) /\ reqs'[i].go = "sent"]_vars
    /\ [][(cpc' = "failed" /\ cpc # "failed") =>
              (cpc = "serving" /\ listener = "none" /\ reqs = <<>>)]_vars
    /\ [](cpc = "returned" => \A i \in 1..MaxRequests : ~Sending(i))
    /\ \A i \in 1..MaxRequests : Sending(i) ~> Sent(i)
====
